---- MODULE Spec2Model ----
(***************************************************************************)
(* Model of src/src/hooks/useDaoMembers.tsx: the useDaoMembers hook, its   *)
(* comparator sortDaoMembers and the normalisation of the data it reads.   *)
(*                                                                         *)
(* Strings are sequences of UTF-16 code units, so that toLowerCase,        *)
(* includes and the relational operator > are computed as JavaScript       *)
(* computes them.  A Number n is represented by the integer n * Unit       *)
(* (fixed point), so that formatUnits with a token's decimals is exact.    *)
(***************************************************************************)
EXTENDS Integers, Sequences, FiniteSets, TLC

VARIABLES
    pluginType,    \* argument pluginType of useDaoMembers
    network,       \* useNetwork().network
    address,       \* useWallet().address, undefined when no wallet is connected
    daoToken,      \* useDaoToken(pluginAddress).data: <<>> (unresolved) or <<token>>
    options,       \* argument options of useDaoMembers
    tokenHolders,  \* the useTokenHolders query: data, isError, isLoading
    membersQuery,  \* the useMembers query: data, isError, isLoading
    balanceOf,     \* what erc20.balanceOf(address) reads: <<>> (fails/pending) or <<raw>>
    cmpArgs,       \* the comparator on its own: members a, b, c, sort key, user
    cmpOut         \* the comparator on its own: what it returned, the sorted list

vars == <<pluginType, network, address, daoToken, options, tokenHolders,
          membersQuery, balanceOf, cmpArgs, cmpOut>>

hookVars == <<pluginType, network, address, daoToken, options, tokenHolders,
              membersQuery, balanceOf>>

----------------------------------------------------------------------------
(* Bounds of the model *)

\* longest list a data source returns (a page of holders, a list of members)
MaxMembers == 2

\* longest delegators list of the members handed to the comparator
MaxDelegators == 1

----------------------------------------------------------------------------
(* JavaScript values *)

\* an absent string (undefined or null); no string holds the code unit -1
undefined == <<-1>>

\* "ab" etc. as code units: '1' = 49, 'A' = 65, 'B' = 66, 'a' = 97, 'b' = 98
Str_aB == <<97, 66>>
Str_Ab == <<65, 98>>
Str_AB == <<65, 66>>
Str_b1 == <<98, 49>>
Str_B1 == <<66, 49>>
Str_1a == <<49, 97>>
Str_ab == <<97, 98>>
Str_B  == <<66>>
Str_empty == <<>>

\* String.prototype.toLowerCase on the ASCII range
ToLowerCase(s) ==
    [i \in DOMAIN s |-> IF s[i] >= 65 /\ s[i] <= 90 THEN s[i] + 32 ELSE s[i]]

\* String.prototype.includes
Includes(s, t) ==
    \E i \in 0..(Len(s) - Len(t)) : SubSeq(s, i + 1, i + Len(t)) = t

\* s > t on strings: lexicographic on code units, a proper prefix is smaller
StringGreater(s, t) ==
    \E i \in 1..Len(s) :
        /\ \A j \in 1..(i - 1) : j <= Len(t) /\ s[j] = t[j]
        /\ (i > Len(t) \/ s[i] > t[i])

\* x || d for an optional boolean x ("undefined", "false", "true")
OrDefault(x, d) == IF x = "true" THEN TRUE ELSE d

\* 1.0 as a fixed-point Number: Numbers are kept in units of 1 / Unit
Unit == 10

RECURSIVE Pow10(_)
Pow10(n) == IF n = 0 THEN 1 ELSE 10 * Pow10(n - 1)

\* the decimals of formatUnits when unitName is undefined
DefaultUnitName == 18

\* daoToken?.decimals when daoToken is null
undefinedNumber == -1

\* Number(formatUnits(value, unitName)), in units of 1 / Unit
FormatUnits(value, unitName) ==
    LET u == IF unitName = undefinedNumber THEN DefaultUnitName ELSE unitName
    IN  IF value = 0 THEN 0 ELSE (value * Unit) \div Pow10(u)

----------------------------------------------------------------------------
(* Members and the comparator *)

\* compareAddresses without toLowerCase
compareAddresses_caseSensitive(addressA, addressB) == addressA = addressB

compareAddresses(addressA, addressB) ==
    IF addressA = undefined \/ addressB = undefined
    THEN addressA = addressB
    ELSE ToLowerCase(addressA) = ToLowerCase(addressB)

isTokenDaoMember(member) == "balance" \in DOMAIN member

\* delegators.some(delegator => compareAddresses(delegator, userAddress))
IsDelegator(member, userAddress) ==
    \E i \in DOMAIN member.delegators :
        compareAddresses(member.delegators[i], userAddress)

\* CompareTokenMembers with the sort key ignored
CompareTokenMembers_votingPowerOnly(sort, a, b) == b.votingPower - a.votingPower

\* two Token members, neither the user nor a delegatee of the user
CompareTokenMembers(sort, a, b) ==
    LET delegatorsResult == Len(b.delegators) - Len(a.delegators)
        votingPowerResult == b.votingPower - a.votingPower
    IN  IF sort = "delegations"
        THEN (IF delegatorsResult = 0 THEN votingPowerResult ELSE delegatorsResult)
        ELSE votingPowerResult

\* the comparator sortDaoMembers(sort, userAddress)(a, b)
sortDaoMembers(sort, userAddress, a, b) ==
    LET isConnectedUserA == compareAddresses(a.address, userAddress)
        isConnectedUserB == compareAddresses(b.address, userAddress)
    IN  IF isConnectedUserA \/ isConnectedUserB
        THEN (IF isConnectedUserA THEN -1 ELSE 1)
        ELSE IF isTokenDaoMember(a) /\ isTokenDaoMember(b)
        THEN LET isDelegatorA == IsDelegator(a, userAddress)
                 isDelegatorB == IsDelegator(b, userAddress)
             IN  IF isDelegatorA \/ isDelegatorB
                 THEN (IF isDelegatorA THEN -1 ELSE 1)
                 ELSE CompareTokenMembers(sort, a, b)
        ELSE (IF StringGreater(a.address, b.address) THEN 1 ELSE -1)

\* one step of a stable insertion sort: x goes right after the last element
\* of the sorted prefix that it does not sort before
InsertSorted(prefix, x, sort, userAddress) ==
    LET notBefore == {j \in DOMAIN prefix :
                         sortDaoMembers(sort, userAddress, x, prefix[j]) >= 0}
        k == IF notBefore = {} THEN 0
             ELSE CHOOSE j \in notBefore : \A i \in notBefore : i <= j
    IN  SubSeq(prefix, 1, k) \o <<x>> \o SubSeq(prefix, k + 1, Len(prefix))

\* [...list].sort(sortDaoMembers(sort, userAddress))
SortMembers(list, sort, userAddress) ==
    LET sorted[i \in 0..Len(list)] ==
            IF i = 0 THEN <<>>
            ELSE InsertSorted(sorted[i - 1], list[i], sort, userAddress)
    IN  sorted[Len(list)]

----------------------------------------------------------------------------
(* Inputs: plugin types, networks, wallets, tokens, options *)

GaslessPluginName == "vocdoni-gasless-voting-poc-vanilla-erc20.plugin.dao.eth"
TokenVotingPluginName == "token-voting.plugin.dao.eth"
MultisigPluginName == "multisig.plugin.dao.eth"

PluginTypes == {TokenVotingPluginName, MultisigPluginName, GaslessPluginName}

SupportedNetworks == {"ethereum", "arbitrum"}

\* the connected wallet: none, or "B1"
Wallets == {undefined, Str_B1}

\* decimals of the DAO token
TokenDecimals == {0, 1}

DaoTokens == {<<>>} \cup {<<[decimals |-> d]>> : d \in TokenDecimals}

\* DaoMembersOptions (page and memberList are only forwarded)
DaoMembersOptions ==
    [searchTerm : {undefined, Str_empty, Str_B},
     sort       : {"undefined", "delegations", "votingPower"},
     countOnly  : {"undefined", "true"},
     enabled    : {"undefined", "false", "true"}]

----------------------------------------------------------------------------
(* What the data sources return *)

\* the sequences over S without repetition, of length at most n
ListsOf(S, n) ==
    {l \in UNION {[1..k -> S] : k \in 0..n} :
        \A i, j \in DOMAIN l : i # j => l[i] # l[j]}

\* holders of the graph index: aB delegates to itself (written "Ab"),
\* b1 delegates to aB (written "AB"), 1a delegates to b1
Holders ==
    {[address |-> Str_aB, balance |-> 20, votes |-> 30, delegates |-> Str_Ab],
     [address |-> Str_b1, balance |-> 10, votes |-> 0,  delegates |-> Str_AB],
     [address |-> Str_1a, balance |-> 10, votes |-> 10, delegates |-> Str_b1]}

\* holders that are on other pages of the index than the one returned
OtherPages == 5

\* data of useTokenHolders: {holders: {holders, totalHolders}}
TokenHoldersData ==
    {[holders |-> [holders |-> page, totalHolders |-> Len(page) + more]] :
        page \in ListsOf(Holders, MaxMembers), more \in {0, OtherPages}}

\* members of the SDK: an address (multisig) or a TokenVotingMember
SdkAddresses ==
    {[type |-> "string", address |-> a] : a \in {Str_aB, Str_b1, Str_1a}}

SdkTokenVotingMembers ==
    {[type |-> "object", address |-> Str_aB, balance |-> 20, votingPower |-> 30,
      delegatee |-> undefined,
      delegators |-> <<[address |-> Str_b1, balance |-> 10]>>],
     [type |-> "object", address |-> Str_b1, balance |-> 10, votingPower |-> 0,
      delegatee |-> Str_aB, delegators |-> <<>>],
     [type |-> "object", address |-> Str_1a, balance |-> 10, votingPower |-> 10,
      delegatee |-> undefined, delegators |-> <<>>]}

\* data of useMembers for a plugin type
MembersData(pt) ==
    IF pt = MultisigPluginName
    THEN ListsOf(SdkAddresses, MaxMembers)
    ELSE ListsOf(SdkTokenVotingMembers, MaxMembers)

\* raw balances balanceOf can read
RawBalances == {0, 150}

\* states of a query: disabled, pending, failed, resolved with data
QueryIdle == [data |-> <<>>, isError |-> FALSE, isLoading |-> FALSE]
QueryLoading == [data |-> <<>>, isError |-> FALSE, isLoading |-> TRUE]
QueryError == [data |-> <<>>, isError |-> TRUE, isLoading |-> FALSE]
QuerySuccess(d) == [data |-> <<d>>, isError |-> FALSE, isLoading |-> FALSE]

\* a query that has just been given a new key
QueryFresh(enabled) == IF enabled THEN QueryLoading ELSE QueryIdle

\* a query whose key is unchanged, after its enabled flag was re-evaluated
QueryKept(query, enabled) ==
    IF ~enabled THEN QueryIdle
    ELSE IF query = QueryIdle THEN QueryLoading
    ELSE query

----------------------------------------------------------------------------
(* useDaoMembers: the values the hook computes from its options o and the  *)
(* current state of its data sources                                       *)

isGaslessBased(pt) == pt = GaslessPluginName
isTokenBased(pt) == pt = TokenVotingPluginName

\* const countOnly = opts?.countOnly || false
countOnly(o) == OrDefault(o.countOnly, FALSE)

\* const enabled = opts?.enabled || true
enabled(o) == OrDefault(o.enabled, TRUE)

covalentSupportedNetwork(net) ==
    ~(net = "arbitrum" \/ net = "base" \/ net = "zksyncSepolia")

\* pluginType is never null: the argument is typed PluginTypes
useGraphql(pt, net, token, o) ==
    /\ isTokenBased(pt)
    /\ covalentSupportedNetwork(net)
    /\ token # <<>>
    /\ enabled(o)

useSubgraph(pt, net, isGraphqlError) ==
    \/ ~isTokenBased(pt)
    \/ ~covalentSupportedNetwork(net)
    \/ (covalentSupportedNetwork(net) /\ isGraphqlError)

\* daoToken?.decimals
decimals == IF daoToken = <<>> THEN undefinedNumber ELSE daoToken[1].decimals

\* data: subgraphData = []
subgraphData == IF membersQuery.data = <<>> THEN <<>> ELSE membersQuery.data[1]

\* sdkToDaoMember(member, tokenDecimals = 0)
sdkToDaoMember(member, tokenDecimals) ==
    LET d == IF tokenDecimals = undefinedNumber THEN 0 ELSE tokenDecimals
    IN  IF member.type = "string"
        THEN [address |-> member.address]
        ELSE [address |-> member.address,
              balance |-> FormatUnits(member.balance, d),
              votingPower |-> FormatUnits(member.votingPower, d),
              delegatee |-> IF member.delegatee = undefined
                            THEN member.address ELSE member.delegatee,
              delegators |-> [i \in DOMAIN member.delegators |->
                                 member.delegators[i].address]]

parsedSubgraphData ==
    [i \in DOMAIN subgraphData |-> sdkToDaoMember(subgraphData[i], decimals)]

enableCensus3(o) == enabled(o) /\ isGaslessBased(pluginType)

\* the data of useReadContracts: the query runs only when it is enabled
userBalance(o) ==
    IF /\ address # undefined
       /\ daoToken # <<>>
       /\ ~countOnly(o)
       /\ enabled(o)
       /\ ~enableCensus3(o)
    THEN balanceOf
    ELSE <<>>

\* Number(formatUnits(userBalance?.[0] ?? '0', daoToken?.decimals))
userBalanceNumber(o) ==
    FormatUnits(IF userBalance(o) = <<>> THEN 0 ELSE userBalance(o)[1], decimals)

\* graphqlData?.holders.holders ?? []
graphqlHolders ==
    IF tokenHolders.data = <<>> THEN <<>> ELSE tokenHolders.data[1].holders.holders

\* GraphqlDelegators without the exclusion of the holder itself
GraphqlDelegators_withSelf(holderAddress) ==
    LET isDelegator(holder) == compareAddresses(holder.delegates, holderAddress)
        delegators == SelectSeq(graphqlHolders, isDelegator)
    IN  [i \in DOMAIN delegators |-> delegators[i].address]

\* the delegators of a holder: the other holders of the page that delegate to it
GraphqlDelegators(holderAddress) ==
    LET isDelegator(holder) ==
            /\ ~compareAddresses(holder.address, holderAddress)
            /\ compareAddresses(holder.delegates, holderAddress)
        delegators == SelectSeq(graphqlHolders, isDelegator)
    IN  [i \in DOMAIN delegators |-> delegators[i].address]

parsedGraphqlData ==
    [i \in DOMAIN graphqlHolders |->
        LET member == graphqlHolders[i]
        IN  [address |-> member.address,
             balance |-> FormatUnits(member.balance, decimals),
             votingPower |-> FormatUnits(member.votes, decimals),
             delegatee |-> member.delegates,
             delegators |-> GraphqlDelegators(member.address)]]

\* getCombinedData with the fallback taken on a balance of zero too
getCombinedData_zeroBalance(o) ==
    IF useSubgraph(pluginType, network, tokenHolders.isError)
    THEN IF Len(subgraphData) = 0 /\ userBalanceNumber(o) >= 0
         THEN <<[address |-> address,
                 balance |-> userBalanceNumber(o),
                 delegatee |-> address,
                 delegators |-> <<>>,
                 votingPower |-> userBalanceNumber(o)]>>
         ELSE parsedSubgraphData
    ELSE parsedGraphqlData

getCombinedData(o) ==
    IF useSubgraph(pluginType, network, tokenHolders.isError)
    THEN IF Len(subgraphData) = 0 /\ userBalanceNumber(o) > 0
         THEN <<[address |-> address,
                 balance |-> userBalanceNumber(o),
                 delegatee |-> address,
                 delegators |-> <<>>,
                 votingPower |-> userBalanceNumber(o)]>>
         ELSE parsedSubgraphData
    ELSE parsedGraphqlData

sortedData(o) ==
    IF o.sort # "undefined"
    THEN SortMembers(getCombinedData(o), o.sort, address)
    ELSE getCombinedData(o)

\* graphqlData?.holders.totalHolders, undefinedNumber when there is no data
totalHolders ==
    IF tokenHolders.data = <<>> THEN undefinedNumber
    ELSE tokenHolders.data[1].holders.totalHolders

\* FilterMembers with the search term not lower-cased
FilterMembers_caseSensitive(members, searchTerm) ==
    LET matches(member) == Includes(ToLowerCase(member.address), searchTerm)
    IN  SelectSeq(members, matches)

\* sortedData.filter(member => member.address.toLowerCase().includes(...))
FilterMembers(members, searchTerm) ==
    LET matches(member) ==
            Includes(ToLowerCase(member.address), ToLowerCase(searchTerm))
    IN  SelectSeq(members, matches)

filteredData(o) ==
    IF o.searchTerm = undefined \/ o.searchTerm = Str_empty
    THEN sortedData(o)
    ELSE FilterMembers(sortedData(o), o.searchTerm)

\* the envelope of the gasless branch: useCensus3DaoMembers is imported from
\* ./useCensus3DaoMembers; it answers with a member-set result for the holders
useCensus3DaoMembers(holders, o) ==
    LET members == IF countOnly(o) THEN <<>> ELSE holders
        filtered == IF o.searchTerm = undefined \/ o.searchTerm = Str_empty
                    THEN members
                    ELSE SelectSeq(members,
                             LAMBDA m : Includes(ToLowerCase(m.address),
                                                 ToLowerCase(o.searchTerm)))
    IN  [data |-> [members |-> members,
                   filteredMembers |-> filtered,
                   daoToken |-> daoToken,
                   memberCount |-> Len(holders)],
         isLoading |-> membersQuery.isLoading,
         isError |-> membersQuery.isError]

\* the branch taken when the hook is disabled
DisabledResult ==
    [data |-> [members |-> <<>>, filteredMembers |-> <<>>, memberCount |-> 0],
     isLoading |-> FALSE,
     isError |-> FALSE]

\* the branch taken when countOnly is set
CountOnlyResult ==
    LET memberCount ==
            IF useSubgraph(pluginType, network, tokenHolders.isError)
            THEN Len(parsedSubgraphData)
            ELSE IF totalHolders = undefinedNumber THEN 0 ELSE totalHolders
    IN  [data |-> [members |-> <<>>,
                   filteredMembers |-> <<>>,
                   daoToken |-> daoToken,
                   memberCount |-> memberCount],
         isLoading |-> membersQuery.isLoading /\ tokenHolders.isLoading,
         isError |-> membersQuery.isError \/ tokenHolders.isError]

\* MembersResult with the filtered list counted
MembersResult_countFiltered(o) ==
    [data |-> [members |-> sortedData(o),
               filteredMembers |-> filteredData(o),
               daoToken |-> daoToken,
               memberCount |-> Len(filteredData(o))],
     isLoading |-> membersQuery.isLoading /\ tokenHolders.isLoading,
     isError |-> membersQuery.isError \/ tokenHolders.isError]

\* the branch that assembles, sorts and filters the member list
MembersResult(o) ==
    LET memberCount ==
            IF useSubgraph(pluginType, network, tokenHolders.isError)
            THEN Len(sortedData(o))
            ELSE IF totalHolders = undefinedNumber THEN Len(sortedData(o))
                 ELSE totalHolders
    IN  [data |-> [members |-> sortedData(o),
                   filteredMembers |-> filteredData(o),
                   daoToken |-> daoToken,
                   memberCount |-> memberCount],
         isLoading |-> membersQuery.isLoading /\ tokenHolders.isLoading,
         isError |-> membersQuery.isError \/ tokenHolders.isError]

\* useDaoMembers without the countOnly branch
useDaoMembers_noCountOnly(o) ==
    IF ~enabled(o) THEN DisabledResult
    ELSE IF enableCensus3(o) THEN useCensus3DaoMembers(parsedSubgraphData, o)
    ELSE MembersResult(o)

\* useDaoMembers(pluginAddress, pluginType, o)
useDaoMembers(o) ==
    IF ~enabled(o) THEN DisabledResult
    ELSE IF enableCensus3(o) THEN useCensus3DaoMembers(parsedSubgraphData, o)
    ELSE IF countOnly(o) THEN CountOnlyResult
    ELSE MembersResult(o)

----------------------------------------------------------------------------
(* The hook as a state machine.  The hook keeps no state of its own: each   *)
(* change of an input or of a query re-renders it, and what it returns is  *)
(* a function of the inputs and queries of that render.                    *)

\* what the current render returns
result == useDaoMembers(options)

NoOptions ==
    [searchTerm |-> undefined, sort |-> "undefined",
     countOnly |-> "undefined", enabled |-> "undefined"]

\* no member has been handed to the comparator on its own
NoComparison == [a |-> [address |-> Str_b1], b |-> [address |-> Str_b1],
                 c |-> [address |-> Str_b1], sort |-> "undefined",
                 userAddress |-> undefined]

NoOutput == [compared |-> <<>>, sorted |-> <<>>]

\* first render: no wallet, the token unresolved, the queries just issued
Init ==
    /\ pluginType \in PluginTypes
    /\ network \in SupportedNetworks
    /\ address = undefined
    /\ daoToken = <<>>
    /\ options = NoOptions
    /\ tokenHolders = QueryFresh(useGraphql(pluginType, network, daoToken, options))
    /\ membersQuery = QueryFresh(useSubgraph(pluginType, network, FALSE)
                                 /\ enabled(options))
    /\ balanceOf = <<>>
    /\ cmpArgs = NoComparison
    /\ cmpOut = NoOutput

\* the caller passes another plugin: both queries get a new key
SetPluginType(pt) ==
    /\ pt # pluginType
    /\ pluginType' = pt
    /\ tokenHolders' = QueryFresh(useGraphql(pt, network, daoToken, options))
    /\ membersQuery' = QueryFresh(useSubgraph(pt, network, FALSE)
                                  /\ enabled(options))
    /\ UNCHANGED <<network, address, daoToken, options, balanceOf, cmpArgs, cmpOut>>

\* the user switches network: useTokenHolders gets a new key
SetNetwork(net) ==
    /\ net # network
    /\ network' = net
    /\ tokenHolders' = QueryFresh(useGraphql(pluginType, net, daoToken, options))
    /\ membersQuery' = QueryKept(membersQuery,
                                 useSubgraph(pluginType, net, FALSE)
                                 /\ enabled(options))
    /\ UNCHANGED <<pluginType, address, daoToken, options, balanceOf, cmpArgs, cmpOut>>

\* the wallet connects or disconnects; no wallet, no balance to read
SetAddress(a) ==
    /\ a # address
    /\ address' = a
    /\ balanceOf' = <<>>
    /\ UNCHANGED <<pluginType, network, daoToken, options, tokenHolders,
                   membersQuery, cmpArgs, cmpOut>>

\* useDaoToken resolves: useTokenHolders gets a new key
SetDaoToken(token) ==
    /\ token # daoToken
    /\ daoToken' = token
    /\ tokenHolders' = QueryFresh(useGraphql(pluginType, network, token, options))
    /\ membersQuery' = QueryKept(membersQuery,
                                 useSubgraph(pluginType, network, FALSE)
                                 /\ enabled(options))
    /\ balanceOf' = <<>>
    /\ UNCHANGED <<pluginType, network, address, options, cmpArgs, cmpOut>>

\* the caller passes other options
SetOptions(o) ==
    /\ o # options
    /\ options' = o
    /\ tokenHolders' = QueryKept(tokenHolders,
                                 useGraphql(pluginType, network, daoToken, o))
    /\ membersQuery' = QueryKept(membersQuery,
                                 useSubgraph(pluginType, network, tokenHolders'.isError)
                                 /\ enabled(o))
    /\ UNCHANGED <<pluginType, network, address, daoToken, balanceOf, cmpArgs, cmpOut>>

\* the graph index answers the enabled useTokenHolders query
TokenHoldersSuccess(d) ==
    /\ useGraphql(pluginType, network, daoToken, options)
    /\ tokenHolders' = QuerySuccess(d)
    /\ tokenHolders' # tokenHolders
    /\ membersQuery' = QueryKept(membersQuery,
                                 useSubgraph(pluginType, network, FALSE)
                                 /\ enabled(options))
    /\ UNCHANGED <<pluginType, network, address, daoToken, options, balanceOf,
                   cmpArgs, cmpOut>>

\* the enabled useTokenHolders query fails: the subgraph takes over
TokenHoldersError ==
    /\ useGraphql(pluginType, network, daoToken, options)
    /\ tokenHolders # QueryError
    /\ tokenHolders' = QueryError
    /\ membersQuery' = QueryKept(membersQuery,
                                 useSubgraph(pluginType, network, TRUE)
                                 /\ enabled(options))
    /\ UNCHANGED <<pluginType, network, address, daoToken, options, balanceOf,
                   cmpArgs, cmpOut>>

\* the subgraph answers the enabled useMembers query
MembersSuccess(d) ==
    /\ useSubgraph(pluginType, network, tokenHolders.isError) /\ enabled(options)
    /\ d \in MembersData(pluginType)
    /\ membersQuery' = QuerySuccess(d)
    /\ membersQuery' # membersQuery
    /\ UNCHANGED <<pluginType, network, address, daoToken, options, tokenHolders,
                   balanceOf, cmpArgs, cmpOut>>

\* the enabled useMembers query fails
MembersError ==
    /\ useSubgraph(pluginType, network, tokenHolders.isError) /\ enabled(options)
    /\ membersQuery # QueryError
    /\ membersQuery' = QueryError
    /\ UNCHANGED <<pluginType, network, address, daoToken, options, tokenHolders,
                   balanceOf, cmpArgs, cmpOut>>

\* the chain answers balanceOf(address) on the token, or the read fails
BalanceOf(read) ==
    /\ address # undefined
    /\ daoToken # <<>>
    /\ read # balanceOf
    /\ balanceOf' = read
    /\ UNCHANGED <<pluginType, network, address, daoToken, options, tokenHolders,
                   membersQuery, cmpArgs, cmpOut>>

\* the changes that leave the plugin type alone
OtherStep ==
    \/ \E net \in SupportedNetworks : SetNetwork(net)
    \/ \E a \in Wallets : SetAddress(a)
    \/ \E token \in DaoTokens : SetDaoToken(token)
    \/ \E o \in DaoMembersOptions : SetOptions(o)
    \/ \E d \in TokenHoldersData : TokenHoldersSuccess(d)
    \/ TokenHoldersError
    \/ \E d \in UNION {MembersData(pt) : pt \in PluginTypes} : MembersSuccess(d)
    \/ MembersError
    \/ \E read \in {<<>>} \cup {<<raw>> : raw \in RawBalances} : BalanceOf(read)

Next ==
    \/ \E pt \in PluginTypes : SetPluginType(pt)
    \/ OtherStep

Spec == Init /\ [][Next]_vars

\* the hook on the plugin types whose result it computes itself (the gasless
\* plugin's result is the one useCensus3DaoMembers returns)
InitComputed == Init /\ ~isGaslessBased(pluginType)

NextComputed ==
    \/ \E pt \in PluginTypes \ {GaslessPluginName} : SetPluginType(pt)
    \/ OtherStep

SpecComputed == InitComputed /\ [][NextComputed]_vars

----------------------------------------------------------------------------
(* The comparator and the sort on their own: sortDaoMembers is exported,   *)
(* and is applied here to lists of three distinct members of both kinds,   *)
(* in any combination and order                                            *)

BasicMembers == {[address |-> a] : a \in {Str_ab, Str_b1}}

TokenMembers ==
    {[address |-> a, balance |-> vp, votingPower |-> vp, delegatee |-> a,
      delegators |-> ds] :
        a \in {Str_aB, Str_b1}, vp \in {0, 10 * Unit},
        ds \in ListsOf({Str_b1, Str_1a}, MaxDelegators)}

DaoMembers == BasicMembers \cup TokenMembers

DaoMemberSorts == {"undefined", "delegations", "votingPower"}

InitSort ==
    /\ pluginType = MultisigPluginName
    /\ network = "ethereum"
    /\ address = undefined
    /\ daoToken = <<>>
    /\ options = NoOptions
    /\ tokenHolders = QueryIdle
    /\ membersQuery = QueryLoading
    /\ balanceOf = <<>>
    /\ cmpArgs \in [a : DaoMembers, b : DaoMembers, c : DaoMembers,
                    sort : DaoMemberSorts, userAddress : Wallets]
    \* a list holds a member once
    /\ cmpArgs.a # cmpArgs.b /\ cmpArgs.b # cmpArgs.c /\ cmpArgs.a # cmpArgs.c
    /\ cmpOut = NoOutput

\* the comparator is called on the pairs of a, b, c
Compare ==
    /\ cmpOut.compared = <<>>
    /\ LET cmp(x, y) == sortDaoMembers(cmpArgs.sort, cmpArgs.userAddress, x, y)
       IN  cmpOut' = [cmpOut EXCEPT !.compared =
                         <<[ab |-> cmp(cmpArgs.a, cmpArgs.b),
                            ba |-> cmp(cmpArgs.b, cmpArgs.a),
                            bc |-> cmp(cmpArgs.b, cmpArgs.c),
                            ac |-> cmp(cmpArgs.a, cmpArgs.c)]>>]
    /\ UNCHANGED <<hookVars, cmpArgs>>

\* the list [a, b, c] is sorted with the comparator
SortList ==
    /\ cmpOut.sorted = <<>>
    /\ cmpOut' = [cmpOut EXCEPT !.sorted =
                     <<SortMembers(<<cmpArgs.a, cmpArgs.b, cmpArgs.c>>,
                                   cmpArgs.sort, cmpArgs.userAddress)>>]
    /\ UNCHANGED <<hookVars, cmpArgs>>

NextSort == Compare \/ SortList

SpecSort == InitSort /\ [][NextSort]_vars

----------------------------------------------------------------------------
(* Properties *)

\* the elements of seq at the indices idx, in the order of seq
Restrict(seq, idx) ==
    [k \in 1..Cardinality(idx) |->
        seq[CHOOSE i \in idx : Cardinality({j \in idx : j <= i}) = k]]

\* s and t are the same address, letter case aside
SameAddress(s, t) == s # undefined /\ t # undefined /\ ToLowerCase(s) = ToLowerCase(t)

Sign(n) == IF n < 0 THEN -1 ELSE IF n > 0 THEN 1 ELSE 0

\* the hook assembles the member list itself: not count-only, not gasless
MembersPath == options.countOnly # "true" /\ pluginType # GaslessPluginName

SubgraphActive ==
    \/ pluginType # TokenVotingPluginName
    \/ network \in {"arbitrum", "base", "zksyncSepolia"}
    \/ tokenHolders.isError

\* C1: a call with enabled = false returns members = [], filteredMembers = [],
\* memberCount = 0, isLoading = false and isError = false, whatever the plugin
\* type, the other options and the state of the data sources.
C1_DisabledReturnsEmpty ==
    options.enabled = "false" =>
        /\ result.data.members = <<>>
        /\ result.data.filteredMembers = <<>>
        /\ result.data.memberCount = 0
        /\ result.isLoading = FALSE
        /\ result.isError = FALSE

\* C2: filteredMembers is the sub-list of members, in the same order, of the
\* members whose lower-cased address contains the lower-cased searchTerm when
\* searchTerm is non-empty, and is members itself when searchTerm is absent
\* or empty.
C2_FilteredIsMatchingSublist ==
    LET members == result.data.members
        term == options.searchTerm
        matching == {i \in DOMAIN members :
                        Includes(ToLowerCase(members[i].address), ToLowerCase(term))}
    IN  IF term = undefined \/ term = <<>>
        THEN result.data.filteredMembers = members
        ELSE result.data.filteredMembers = Restrict(members, matching)

\* C2 witness: a search term keeps one of two members and drops the other
C2_Witness ==
    /\ options.searchTerm = Str_B
    /\ pluginType # GaslessPluginName
    /\ Len(result.data.members) = 2
    /\ Len(result.data.filteredMembers) = 1

\* C3: with countOnly = true, members and filteredMembers are both empty,
\* whatever the plugin type, the network and the state of the data sources.
C3_CountOnlyListsEmpty ==
    options.countOnly = "true" =>
        result.data.members = <<>> /\ result.data.filteredMembers = <<>>

\* C3 witness: a count-only call while the data source holds members
C3_Witness ==
    /\ options.countOnly = "true"
    /\ pluginType # GaslessPluginName
    /\ result.data.memberCount > 0
    /\ (Len(subgraphData) > 0 \/ Len(graphqlHolders) > 0)

\* C4: when the list holds a member whose address is the connected wallet's
\* (letter case aside), sorting it with either sort key puts such a member at
\* index 0, whatever the input order and the kinds of the members.
C4_ConnectedUserFirst ==
    (/\ cmpOut.sorted # <<>>
     /\ cmpArgs.sort \in {"delegations", "votingPower"}
     /\ \E m \in {cmpArgs.a, cmpArgs.b, cmpArgs.c} :
            SameAddress(m.address, cmpArgs.userAddress))
    => SameAddress(cmpOut.sorted[1][1].address, cmpArgs.userAddress)

\* C4 witness: the connected user is last in the input, after a Token member
\* and a Basic member, and the list has been sorted
C4_Witness ==
    /\ cmpOut.sorted # <<>>
    /\ cmpArgs.sort = "delegations"
    /\ cmpArgs.userAddress = Str_B1
    /\ cmpArgs.c.address = Str_b1
    /\ cmpArgs.a.address = Str_aB
    /\ cmpArgs.b.address = Str_ab
    /\ cmpOut.sorted[1][1] = cmpArgs.c

\* C5: the comparator is a total order: the sign of cmp(a, b) is the opposite
\* of the sign of cmp(b, a), and cmp(a, b) <= 0 with cmp(b, c) <= 0 implies
\* cmp(a, c) <= 0, for all members a, b, c of either kind.
C5_ComparatorTotalOrder ==
    (cmpOut.compared # <<>> /\ cmpArgs.sort \in {"delegations", "votingPower"}) =>
        LET r == cmpOut.compared[1]
        IN  /\ Sign(r.ab) = -Sign(r.ba)
            /\ (r.ab <= 0 /\ r.bc <= 0 => r.ac <= 0)

\* neither a nor b is the connected user or has the user among its delegators
NeitherIsUserNorDelegatee ==
    \A m \in {cmpArgs.a, cmpArgs.b} :
        /\ ~SameAddress(m.address, cmpArgs.userAddress)
        /\ \A i \in DOMAIN m.delegators :
               ~SameAddress(m.delegators[i], cmpArgs.userAddress)

\* C6: for two Token members neither of which is the connected user or has
\* the user among its delegators: with sort key "delegations" the one with
\* strictly more delegators comes first and, the counts being equal, the one
\* with the higher votingPower; with sort key "votingPower" they are ordered
\* by descending votingPower only.
C6_TokenMembersOrder ==
    (/\ cmpOut.compared # <<>>
     /\ "balance" \in DOMAIN cmpArgs.a
     /\ "balance" \in DOMAIN cmpArgs.b
     /\ NeitherIsUserNorDelegatee)
    => LET a == cmpArgs.a
           b == cmpArgs.b
           r == cmpOut.compared[1]
       IN  /\ cmpArgs.sort = "delegations" =>
                 IF Len(a.delegators) # Len(b.delegators)
                 THEN Sign(r.ab) = Sign(Len(b.delegators) - Len(a.delegators))
                 ELSE Sign(r.ab) = Sign(b.votingPower - a.votingPower)
           /\ cmpArgs.sort = "votingPower" =>
                 Sign(r.ab) = Sign(b.votingPower - a.votingPower)

\* C6 witness: under "delegations", a has more delegators and less voting
\* power than b, and is ordered first
C6_Witness ==
    /\ cmpOut.compared # <<>>
    /\ cmpArgs.sort = "delegations"
    /\ "balance" \in DOMAIN cmpArgs.a
    /\ "balance" \in DOMAIN cmpArgs.b
    /\ NeitherIsUserNorDelegatee
    /\ Len(cmpArgs.a.delegators) > Len(cmpArgs.b.delegators)
    /\ cmpArgs.a.votingPower < cmpArgs.b.votingPower
    /\ cmpOut.compared[1].ab < 0

\* the on-chain balance of the connected wallet, as a Number; 0 when there is
\* no wallet or no token, or when the read failed
OnChainBalance ==
    IF address # undefined /\ daoToken # <<>> /\ balanceOf # <<>>
    THEN (balanceOf[1] * Unit) \div Pow10(daoToken[1].decimals)
    ELSE 0

\* C7: when the hook assembles the list, the subgraph path is active and the
\* subgraph returns no member: members is exactly one Token member for the
\* connected wallet, with balance = votingPower = the on-chain balance,
\* delegatee = the wallet and delegators = [], if that balance is positive;
\* members is empty if the balance is zero or its read failed or is disabled.
C7_FallbackSelfBalance ==
    (MembersPath /\ SubgraphActive /\ Len(subgraphData) = 0) =>
        IF OnChainBalance > 0
        THEN result.data.members =
                 <<[address |-> address,
                    balance |-> OnChainBalance,
                    votingPower |-> OnChainBalance,
                    delegatee |-> address,
                    delegators |-> <<>>]>>
        ELSE result.data.members = <<>>

\* C7 witness: balance 150 with decimals 0 and an empty subgraph list
C7_Witness ==
    /\ MembersPath /\ SubgraphActive
    /\ membersQuery.data = <<(<<>>)>>
    /\ balanceOf = <<150>>
    /\ daoToken = <<[decimals |-> 0]>>
    /\ Len(result.data.members) = 1
    /\ result.data.members[1].balance = 150 * Unit

\* C8: on the graph-index path every holder h of the page yields a member
\* whose delegators are exactly the addresses of the holders g of the page
\* with g.address different from h.address and g.delegates equal to
\* h.address, letter case aside; no member is in its own delegators list.
C8_GraphqlDelegators ==
    (MembersPath /\ ~SubgraphActive) =>
        LET page == graphqlHolders
            members == result.data.members
            delegatorsOf(h) ==
                LET idx == {i \in DOMAIN page :
                               /\ ~SameAddress(page[i].address, h.address)
                               /\ SameAddress(page[i].delegates, h.address)}
                    others == Restrict(page, idx)
                IN  [k \in DOMAIN others |-> others[k].address]
        IN  /\ Len(members) = Len(page)
            /\ \A i \in DOMAIN page :
                   \E k \in DOMAIN members :
                       /\ members[k].address = page[i].address
                       /\ members[k].delegators = delegatorsOf(page[i])
            /\ \A k \in DOMAIN members :
                   \A d \in DOMAIN members[k].delegators :
                       ~SameAddress(members[k].delegators[d], members[k].address)

\* C8 witness: a page with a self-delegating holder and a holder delegating
\* to it: the former has exactly the latter as its delegator
C8_Witness ==
    /\ MembersPath /\ ~SubgraphActive
    /\ Len(graphqlHolders) = 2
    /\ \E k \in DOMAIN result.data.members :
           /\ result.data.members[k].address = Str_aB
           /\ result.data.members[k].delegatee = Str_Ab
           /\ result.data.members[k].delegators = <<Str_b1>>

\* C9: when the hook assembles the list, memberCount is the length of members
\* if the subgraph path is active, else the totalHolders the graph index
\* reports (the length of members without graph-index data); and it is the
\* same for every searchTerm.
C9_MemberCount ==
    MembersPath =>
        /\ result.data.memberCount =
               IF SubgraphActive THEN Len(result.data.members)
               ELSE IF tokenHolders.data # <<>>
                    THEN tokenHolders.data[1].holders.totalHolders
                    ELSE Len(result.data.members)
        /\ \A term \in {undefined, Str_empty, Str_B, Str_b1} :
               useDaoMembers([options EXCEPT !.searchTerm = term]).data.memberCount
                   = result.data.memberCount

\* C9 witness: the graph index reports more holders than its page holds, and
\* the search term drops a member of the page
C9_Witness ==
    /\ MembersPath /\ ~SubgraphActive
    /\ tokenHolders.data # <<>>
    /\ result.data.memberCount > Len(result.data.members)
    /\ Len(result.data.members) > Len(result.data.filteredMembers)

\* C10: for the same plugin, network, wallet and data sources (not gasless),
\* the memberCount of a countOnly = true call equals the memberCount of a
\* countOnly = false call.
C10_CountOnlySameCount ==
    pluginType # GaslessPluginName =>
        useDaoMembers([options EXCEPT !.countOnly = "true"]).data.memberCount
            = useDaoMembers([options EXCEPT !.countOnly = "undefined"]).data.memberCount

====
